---- MODULE Spec2Model ----
(***************************************************************************)
(* Model of server/db/db.py: DatabaseManager, the user store of the        *)
(* application (credentials, accounts, sessions, roles, security log).     *)
(*                                                                         *)
(* Tables are sets of rows (records); the security log is a sequence in    *)
(* insertion order (its AUTOINCREMENT id is the position).  Columns that   *)
(* no operation of DatabaseManager reads back (device_info, first_name,    *)
(* last_name, user_agent, metadata, the log's created_at) are left out of  *)
(* the rows.  An optional value is a sequence of length at most one: <<>>  *)
(* is None/NULL, <<v>> is v.  A stored timestamp is the wall-clock reading *)
(* its text spells, counted in ticks of 1/TicksPerSecond second; the clock *)
(* now is UTC, and tz is the offset, in hours, of the zone the process     *)
(* runs in.  Each operation is one step: call is the operation and its     *)
(* arguments, ret what it returned or raised.                              *)
(***************************************************************************)
EXTENDS Integers, Sequences, FiniteSets, TLC

VARIABLES users, user_sessions, roles, user_roles, user_security_logs,
          now, tz, call, ret, cleanups_in_a_row, ops

vars == <<users, user_sessions, roles, user_roles, user_security_logs,
          now, tz, call, ret, cleanups_in_a_row, ops>>

store == <<users, user_sessions, roles, user_roles, user_security_logs>>

(***************************************************************************)
(* Bounds of the model.                                                    *)
(***************************************************************************)
MaxUsers == 2
MaxOps == 3
MaxHours == 1
TicksPerSecond == 2

(***************************************************************************)
(* Program constants.                                                      *)
(***************************************************************************)
SecondsPerHour == 3600
BlockSize == 64
Iterations == 100000

TicksPerHour == SecondsPerHour * TicksPerSecond

None == <<>>
Some(v) == <<v>>

(***************************************************************************)
(* Input domains.                                                          *)
(***************************************************************************)
Usernames == {"johndoe", "janedoe"}
Emails == {"john@example.com", "jane@example.com"}
\* passwords are sequences of UTF-8 bytes: "a", "b"
Passwords == {<<97>>, <<98>>}
\* "", "a", "a\x00", "b" and a password longer than one hash block
HashPasswords == {<<>>, <<97>>, <<97, 0>>, <<98>>, [i \in 1..(BlockSize + 1) |-> 97]}
GeneratedSalts == {"salt1"}
GivenSalts == {"salt1", "salt2", "pepper"}
SessionIds == {"uuid-1", "uuid-2"}
IpAddresses == {Some("192.168.1.100")}
Durations == {-1, 0, 1}
TzOffsets == {-1, 0, 1}
RoleNames == {"admin", "nonexistent"}
\* ids passed by callers: a user that may exist and one that never does
UserIds == {1, MaxUsers + 1}
LogCalls == {<<None, TRUE, None>>,
             <<Some(1), FALSE, Some("Session revoked")>>,
             <<Some(MaxUsers + 1), TRUE, None>>}
\* the clock is read on the hour and one tick after it
ClockValues == {h * TicksPerHour + s : h \in 0..MaxHours, s \in {0, 1}}

(***************************************************************************)
(* Credential management.                                                  *)
(***************************************************************************)
\* HMAC (RFC 2104) prepares its key before use: a key longer than one block
\* of the hash is replaced by its digest (kept symbolic here), and a shorter
\* one is padded with zero bytes to the block size.
HmacKey(key) ==
    IF Len(key) > BlockSize
    THEN [digest |-> TRUE, bytes |-> key]
    ELSE [digest |-> FALSE, bytes |-> key \o [i \in 1..(BlockSize - Len(key)) |-> 0]]

\* hashlib.pbkdf2_hmac('sha256', password, salt, 100000).hex(): a function
\* of the prepared key, the salt and the iteration count, taken to be free
\* of collisions on these.
pbkdf2_hmac(password, salt, iterations) ==
    [key |-> HmacKey(password), salt |-> salt, iterations |-> iterations]

\* hash_password(password, salt): salt is None or Some(s); token is the value
\* secrets.token_hex(32) returns when it is called.
hash_password(password, salt, token) ==
    LET s == IF salt = None THEN token ELSE salt[1]
    IN  <<pbkdf2_hmac(password, s, Iterations), s>>

verify_password(password, stored_hash, salt) ==
    hash_password(password, Some(salt), salt)[1] = stored_hash

(***************************************************************************)
(* The clock and the two ways the program reads it.                        *)
(***************************************************************************)
\* SQLite's CURRENT_TIMESTAMP: UTC, 'YYYY-MM-DD HH:MM:SS', whole seconds.
CurrentTimestamp(t) == (t \div TicksPerSecond) * TicksPerSecond

\* datetime.now(): naive local time with microseconds, i.e. UTC shifted by
\* the zone offset of the process; no zone information is kept.
DatetimeNow(t, offset) == t + offset * TicksPerHour

timedelta(hours) == hours * TicksPerHour

\* Both kinds of timestamp are stored as text ('YYYY-MM-DD HH:MM:SS' with an
\* optional '.ffffff'), and SQLite compares them as text: with fields of
\* fixed width that is the order of the wall-clock readings they spell.
SqlLess(a, b) == a < b

\* The instant on the UTC time line at which a local wall-clock reading,
\* taken in a zone with the given offset, occurs.
Instant(local, offset) == local - offset * TicksPerHour

(***************************************************************************)
(* Return values: a normal return of val, or an exception leaving the      *)
(* operation.                                                              *)
(***************************************************************************)
Returned(v) == [raised |-> FALSE, val |-> v]
Raised(e) == [raised |-> TRUE, val |-> e]

(***************************************************************************)
(* Schema: the rows create_tables admits.                                  *)
(***************************************************************************)
UserIdsOf(us) == {u.id : u \in us}

\* users.id INTEGER PRIMARY KEY AUTOINCREMENT
NextUserId(us) ==
    IF us = {} THEN 1
    ELSE (CHOOSE m \in UserIdsOf(us) : \A i \in UserIdsOf(us) : i <= m) + 1

\* as UsersUniqueViolation, had the unique index on users.email been left out
UsersUniqueViolation_UsernameOnly(us, username, email) ==
    \E u \in us : u.username = username

\* UNIQUE on users.username and on users.email
UsersUniqueViolation(us, username, email) ==
    \E u \in us : u.username = username \/ u.email = email

\* as DefaultRoleNames, had the seeding of the role 'user' been lost
DefaultRoleNames_WithoutUser == <<"admin", "moderator", "premium_user">>

DefaultRoleNames == <<"admin", "moderator", "user", "premium_user">>

DefaultRoles == {[id |-> i, name |-> DefaultRoleNames[i]] : i \in 1..Len(DefaultRoleNames)}

(***************************************************************************)
(* log_security_event: one INSERT into user_security_logs.  The row's      *)
(* user_id references users(id) when it is not NULL.                       *)
(***************************************************************************)
LogRow(user_id, event_type, ip_address, success, failure_reason) ==
    [user_id |-> user_id, event_type |-> event_type, ip_address |-> ip_address,
     success |-> success, failure_reason |-> failure_reason]

LogForeignKeyFails(us, user_id) ==
    user_id # None /\ user_id[1] \notin UserIdsOf(us)

\* as log_security_event, had failure_reason not been bound to its column
log_security_event_WithoutReason(logs, user_id, event_type, ip_address, success, failure_reason) ==
    Append(logs, LogRow(user_id, event_type, ip_address, success, None))

\* as log_security_event, had the statement been an INSERT OR REPLACE under a
\* unique index on user_id (one record kept for each user)
log_security_event_OnePerUser(logs, user_id, event_type, ip_address, success, failure_reason) ==
    LET row == LogRow(user_id, event_type, ip_address, success, failure_reason)
        same == {i \in 1..Len(logs) : logs[i].user_id = user_id}
    IN  IF same = {} THEN Append(logs, row)
        ELSE [logs EXCEPT ![CHOOSE i \in same : TRUE] = row]

log_security_event(logs, user_id, event_type, ip_address, success, failure_reason) ==
    Append(logs, LogRow(user_id, event_type, ip_address, success, failure_reason))

(***************************************************************************)
(* assign_role_to_user: the value returned and the user_roles table left.  *)
(***************************************************************************)
\* as RoleRow, had the SELECT no WHERE clause
RoleRow_AnyRole(rs, role_name) == rs

RoleRow(rs, role_name) == {r \in rs : r.name = role_name}

UserRolesForeignKeyFails(us, user_id, assigned_by) ==
    user_id \notin UserIdsOf(us) \/ assigned_by \notin UserIdsOf(us)

assign_role_to_user(ur, us, rs, user_id, role_name, assigned_by) ==
    IF RoleRow(rs, role_name) = {}
    THEN [val |-> FALSE, user_roles |-> ur]
    ELSE LET role_id == (CHOOSE r \in RoleRow(rs, role_name) : TRUE).id
         IN  IF UserRolesForeignKeyFails(us, user_id, assigned_by)
             \* sqlite3.IntegrityError, caught by "except sqlite3.Error"
             THEN [val |-> FALSE, user_roles |-> ur]
             \* INSERT OR REPLACE on the primary key (user_id, role_id)
             ELSE [val |-> TRUE,
                   user_roles |->
                       {r \in ur : ~(r.user_id = user_id /\ r.role_id = role_id)}
                       \cup {[user_id |-> user_id, role_id |-> role_id,
                              assigned_by |-> assigned_by]}]

(***************************************************************************)
(* Lookups and the DELETE of cleanup_expired_sessions.                     *)
(***************************************************************************)
\* as get_user_by_email, had the SELECT not asked for is_deleted = 0
get_user_by_email_WithDeleted(us, email) ==
    LET rows == {u \in us : u.email = email /\ u.is_active}
    IN  IF rows = {} THEN None ELSE Some(CHOOSE u \in rows : TRUE)

\* SELECT * FROM users WHERE email = ? AND is_active = 1 AND is_deleted = 0,
\* then fetchone(): None or Some(row)
get_user_by_email(us, email) ==
    LET rows == {u \in us : u.email = email /\ u.is_active /\ ~u.is_deleted}
    IN  IF rows = {} THEN None ELSE Some(CHOOSE u \in rows : TRUE)

\* the rows matched by "expires_at < CURRENT_TIMESTAMP" at time t
ExpiredRows(ss, t) == {x \in ss : SqlLess(x.expires_at, CurrentTimestamp(t))}

\* the expires_at create_session binds: datetime.now() + timedelta(hours)
ExpiresAt(t, offset, duration_hours) ==
    DatetimeNow(t, offset) + timedelta(duration_hours)

\* as SessionInsertFails, had user_sessions.id not been a primary key
SessionInsertFails_NoPrimaryKey(ss, us, session_id, user_id) ==
    user_id \notin UserIdsOf(us)

\* PRIMARY KEY on user_sessions.id, FOREIGN KEY user_id -> users(id)
SessionInsertFails(ss, us, session_id, user_id) ==
    (\E x \in ss : x.id = session_id) \/ user_id \notin UserIdsOf(us)

(***************************************************************************)
(* Initial state: the constructor has connected, created the missing       *)
(* tables and inserted the missing default roles.  The database file       *)
(* outlives the process, so the tables hold what an earlier run and the    *)
(* administration of the accounts (is_active, is_deleted) left there.      *)
(***************************************************************************)
StoredUser(id, username, email, password, salt, active, deleted) ==
    [id |-> id, username |-> username, email |-> email,
     password_hash |-> hash_password(password, Some(salt), salt)[1], salt |-> salt,
     is_active |-> active, is_deleted |-> deleted, last_login_at |-> None]

EarlierRuns ==
    {[users |-> {}, user_roles |-> {}, logs |-> <<>>]}
    \cup
    {[users |-> {StoredUser(1, "johndoe", "john@example.com", <<97>>, "salt1",
                            flags[1], flags[2])},
      user_roles |-> {[user_id |-> 1, role_id |-> 3, assigned_by |-> 1]},
      logs |-> <<LogRow(Some(1), "user_created", None, TRUE, None)>>]
     : flags \in {<<TRUE, FALSE>>, <<FALSE, FALSE>>, <<TRUE, TRUE>>}}

Init ==
    /\ \E db \in EarlierRuns :
          /\ users = db.users
          /\ user_roles = db.user_roles
          /\ user_security_logs = db.logs
    /\ user_sessions = {}
    /\ roles = DefaultRoles
    /\ now = 0
    /\ tz \in TzOffsets
    /\ call = [op |-> "__init__"]
    /\ ret = Returned(None)
    /\ cleanups_in_a_row = 0
    /\ ops = 0

(***************************************************************************)
(* Operations.  A behaviour takes at most MaxOps steps.                     *)
(***************************************************************************)
Called == ops < MaxOps /\ ops' = ops + 1

\* time passes between two calls
Tick ==
    /\ Called
    /\ \E t \in ClockValues : t > now /\ now' = t
    /\ call' = [op |-> "clock"]
    /\ ret' = Returned(None)
    /\ cleanups_in_a_row' = 0
    /\ UNCHANGED <<store, tz>>

CreateUser ==
    /\ Called
    /\ \E username \in Usernames, email \in Emails, password \in Passwords,
       token \in GeneratedSalts :
       LET hs == hash_password(password, None, token)
           user_id == NextUserId(users)
           row == [id |-> user_id, username |-> username, email |-> email,
                   password_hash |-> hs[1], salt |-> hs[2],
                   is_active |-> TRUE, is_deleted |-> FALSE,
                   last_login_at |-> None]
           inserted == users \cup {row}
           assigned == assign_role_to_user(user_roles, inserted, roles,
                                           user_id, "user", user_id)
       IN  /\ call' = [op |-> "create_user", username |-> username,
                       email |-> email, password |-> password]
           /\ cleanups_in_a_row' = 0
           /\ IF UsersUniqueViolation(users, username, email)
              THEN \* sqlite3.IntegrityError, caught: return None
                   /\ ret' = Returned(None)
                   /\ UNCHANGED <<store, now, tz>>
              ELSE /\ Cardinality(users) < MaxUsers
                   /\ users' = inserted
                   /\ user_roles' = assigned.user_roles
                   /\ user_security_logs' =
                          log_security_event(user_security_logs, Some(user_id),
                                             "user_created", None, TRUE, None)
                   /\ ret' = Returned(Some(user_id))
                   /\ UNCHANGED <<user_sessions, roles, now, tz>>

AssignRoleToUser ==
    /\ Called
    /\ \E user_id \in UserIds, role_name \in RoleNames, assigned_by \in UserIds :
       LET r == assign_role_to_user(user_roles, users, roles,
                                    user_id, role_name, assigned_by)
       IN  /\ call' = [op |-> "assign_role_to_user", user_id |-> user_id,
                       role_name |-> role_name, assigned_by |-> assigned_by]
           /\ ret' = Returned(r.val)
           /\ user_roles' = r.user_roles
           /\ cleanups_in_a_row' = 0
           /\ UNCHANGED <<users, user_sessions, roles, user_security_logs, now, tz>>

CreateSession ==
    /\ Called
    /\ \E user_id \in UserIds, ip_address \in IpAddresses,
       duration_hours \in Durations, session_id \in SessionIds :
       \* session_id is what uuid.uuid4() returns
       LET expires_at == ExpiresAt(now, tz, duration_hours)
           row == [id |-> session_id, user_id |-> user_id,
                   ip_address |-> ip_address, expires_at |-> expires_at,
                   created_at |-> CurrentTimestamp(now)]
       IN  /\ call' = [op |-> "create_session", user_id |-> user_id,
                       ip_address |-> ip_address,
                       duration_hours |-> duration_hours]
           /\ cleanups_in_a_row' = 0
           /\ IF SessionInsertFails(user_sessions, users, session_id, user_id)
              THEN \* execute_query rolls back and re-raises
                   /\ ret' = Raised("IntegrityError")
                   /\ UNCHANGED <<store, now, tz>>
              ELSE /\ user_sessions' = user_sessions \cup {row}
                   /\ users' = {IF u.id = user_id
                                THEN [u EXCEPT !.last_login_at =
                                                    Some(CurrentTimestamp(now))]
                                ELSE u : u \in users}
                   /\ user_security_logs' =
                          log_security_event(user_security_logs, Some(user_id),
                                             "login", ip_address, TRUE, None)
                   /\ ret' = Returned(session_id)
                   /\ UNCHANGED <<roles, user_roles, now, tz>>

AuthenticateUser ==
    /\ Called
    /\ \E email \in Emails, password \in Passwords :
       LET user == get_user_by_email(users, email)
       IN  /\ call' = [op |-> "authenticate_user", email |-> email,
                       password |-> password]
           /\ cleanups_in_a_row' = 0
           /\ IF user = None
              THEN /\ user_security_logs' =
                          log_security_event(user_security_logs, None,
                                             "login_failed", None, TRUE,
                                             Some("User not found"))
                   /\ ret' = Returned(None)
              ELSE IF verify_password(password, user[1].password_hash, user[1].salt)
              THEN /\ ret' = Returned(user)
                   /\ UNCHANGED user_security_logs
              ELSE /\ user_security_logs' =
                          log_security_event(user_security_logs, Some(user[1].id),
                                             "login_failed", None, TRUE,
                                             Some("Invalid password"))
                   /\ ret' = Returned(None)
           /\ UNCHANGED <<users, user_sessions, roles, user_roles, now, tz>>

\* as CleanupExpiredSessions, had it returned the connection's running count
\* of changed rows (total_changes) in place of the statement's rowcount
CleanupExpiredSessions_TotalChanges ==
    LET deleted == ExpiredRows(user_sessions, now)
    IN  /\ Called
        /\ call' = [op |-> "cleanup_expired_sessions"]
        /\ user_sessions' = user_sessions \ deleted
        /\ ret' = Returned(Cardinality(deleted) + Len(user_security_logs))
        /\ cleanups_in_a_row' = IF cleanups_in_a_row < 2
                                THEN cleanups_in_a_row + 1 ELSE 2
        /\ UNCHANGED <<users, roles, user_roles, user_security_logs, now, tz>>

CleanupExpiredSessions ==
    LET deleted == ExpiredRows(user_sessions, now)
    IN  /\ Called
        /\ call' = [op |-> "cleanup_expired_sessions"]
        /\ user_sessions' = user_sessions \ deleted
        /\ ret' = Returned(Cardinality(deleted))
        /\ cleanups_in_a_row' = IF cleanups_in_a_row < 2
                                THEN cleanups_in_a_row + 1 ELSE 2
        /\ UNCHANGED <<users, roles, user_roles, user_security_logs, now, tz>>

LogSecurityEvent ==
    /\ Called
    /\ \E args \in LogCalls :
       LET user_id == args[1]
           success == args[2]
           failure_reason == args[3]
       IN
       /\ call' = [op |-> "log_security_event", user_id |-> user_id,
                   success |-> success, failure_reason |-> failure_reason]
       /\ cleanups_in_a_row' = 0
       /\ IF LogForeignKeyFails(users, user_id)
          THEN /\ ret' = Raised("IntegrityError")
               /\ UNCHANGED user_security_logs
          ELSE /\ user_security_logs' =
                      log_security_event(user_security_logs, user_id, "logout",
                                         None, success, failure_reason)
               /\ ret' = Returned(None)
       /\ UNCHANGED <<users, user_sessions, roles, user_roles, now, tz>>

Next ==
    \/ Tick
    \/ CreateUser
    \/ AssignRoleToUser
    \/ CreateSession
    \/ AuthenticateUser
    \/ CleanupExpiredSessions
    \/ LogSecurityEvent

Spec == Init /\ [][Next]_vars

(***************************************************************************)
(* The credential functions on their own: hash_password is applied to      *)
(* drawn inputs, verify_password to its result and a candidate password.   *)
(***************************************************************************)
HashPassword ==
    \E password \in HashPasswords,
       salt \in {None} \cup {Some(g) : g \in GivenSalts},
       token \in GeneratedSalts :
       /\ call' = [op |-> "hash_password", password |-> password, salt |-> salt]
       /\ ret' = Returned(hash_password(password, salt, token))
       /\ UNCHANGED <<store, now, tz, cleanups_in_a_row, ops>>

VerifyPassword ==
    /\ call.op = "hash_password"
    /\ \E password \in HashPasswords :
          /\ call' = [op |-> "verify_password", password |-> password,
                      stored_hash |-> ret.val[1], salt |-> ret.val[2],
                      hashed |-> call.password]
          /\ ret' = Returned(verify_password(password, ret.val[1], ret.val[2]))
    /\ UNCHANGED <<store, now, tz, cleanups_in_a_row, ops>>

NextHash ==
    \/ HashPassword
    \/ VerifyPassword

SpecHash == Init /\ [][NextHash]_vars

(***************************************************************************)
(* Helpers of the properties.                                              *)
(***************************************************************************)
Last(q) == q[Len(q)]

\* q2 is q1 followed by exactly one more record
OneAppended(q1, q2) == Len(q2) = Len(q1) + 1 /\ SubSeq(q2, 1, Len(q1)) = q1

(***************************************************************************)
(* C1.  verify_password(p2, h, s), with (h, s) the result of               *)
(* hash_password(p, s), is true when p2 = p and false when p2 differs from *)
(* p; hash_password returns the salt it was given.                         *)
(***************************************************************************)
C1_VerifyAcceptsOnlyThePassword ==
    /\ call.op = "verify_password" =>
          (ret.val <=> (call.password = call.hashed))
    /\ (call.op = "hash_password" /\ call.salt # None) =>
          ret.val[2] = call.salt[1]

(***************************************************************************)
(* C2.  A create_user call whose username or email is that of a stored     *)
(* user returns None and leaves users, user_roles and user_security_logs   *)
(* as they were.                                                           *)
(***************************************************************************)
C2_DuplicateCreateUserFails ==
    [][(/\ call'.op = "create_user"
        /\ \E u \in users : u.username = call'.username \/ u.email = call'.email)
       => /\ ret' = Returned(None)
          /\ users' = users
          /\ user_roles' = user_roles
          /\ user_security_logs' = user_security_logs]_vars

\* a create_user that failed on the email of a stored user alone
C2_Witness ==
    /\ call.op = "create_user"
    /\ ret = Returned(None)
    /\ \E u \in users : u.email = call.email /\ u.username # call.username
    /\ user_roles # {}

(***************************************************************************)
(* C3.  authenticate_user(email, password) returns a user record exactly   *)
(* when a stored user has that email, is active, is not deleted and has a  *)
(* stored hash equal to the hash of the password under the stored salt;    *)
(* the record is that user's; otherwise it returns None.                   *)
(***************************************************************************)
C3_AuthenticateIffCredentialsMatch ==
    [][call'.op = "authenticate_user"
       => LET matching ==
                 {u \in users :
                     /\ u.email = call'.email
                     /\ u.is_active
                     /\ ~u.is_deleted
                     /\ u.password_hash =
                            pbkdf2_hmac(call'.password, u.salt, Iterations)}
          IN  /\ ~ret'.raised
              /\ (ret'.val # None) <=> (matching # {})
              /\ ret'.val # None => ret'.val[1] \in matching]_vars

\* a successful authentication, in a store that also holds a user who
\* cannot log in
C3_Witness ==
    /\ call.op = "authenticate_user"
    /\ ret.val # None
    /\ ret.val[1].email = call.email

(***************************************************************************)
(* C4.  authenticate_user leaves users, user_sessions and user_roles as    *)
(* they were; it appends one login_failed record with reason "User not     *)
(* found" and no user when no active, non-deleted user has the email, one  *)
(* login_failed record with reason "Invalid password" for the user when    *)
(* the password is wrong, and nothing when it succeeds.                    *)
(***************************************************************************)
C4_AuthenticateOnlyLogs ==
    [][call'.op = "authenticate_user"
       => LET found == {u \in users :
                           u.email = call'.email /\ u.is_active /\ ~u.is_deleted}
              logs == user_security_logs
              logs2 == user_security_logs'
          IN  /\ users' = users
              /\ user_sessions' = user_sessions
              /\ user_roles' = user_roles
              /\ IF found = {}
                 THEN /\ OneAppended(logs, logs2)
                      /\ Last(logs2).event_type = "login_failed"
                      /\ Last(logs2).failure_reason = Some("User not found")
                      /\ Last(logs2).user_id = None
                 ELSE IF ret'.val = None
                 THEN /\ OneAppended(logs, logs2)
                      /\ Last(logs2).event_type = "login_failed"
                      /\ Last(logs2).failure_reason = Some("Invalid password")
                      /\ Last(logs2).user_id \in {Some(u.id) : u \in found}
                 ELSE logs2 = logs]_vars

\* a wrong password for a user who has a session
C4_Witness ==
    /\ call.op = "authenticate_user"
    /\ ret.val = None
    /\ user_security_logs # <<>>
    /\ Last(user_security_logs).failure_reason = Some("Invalid password")
    /\ \E x \in user_sessions : Some(x.user_id) = Last(user_security_logs).user_id

(***************************************************************************)
(* C5.  For every session row create_session inserts, the stored           *)
(* expires_at is the stored created_at plus exactly duration_hours hours.  *)
(***************************************************************************)
C5_ExpiryIsCreationPlusDuration ==
    [][(call'.op = "create_session" /\ ~ret'.raised)
       => \A x \in user_sessions' \ user_sessions :
             x.expires_at = x.created_at + call'.duration_hours * TicksPerHour]_vars

(***************************************************************************)
(* C6.  cleanup_expired_sessions removes exactly the sessions whose expiry *)
(* instant is earlier than the current instant, leaves the others as they  *)
(* were, and returns the number of rows removed.                           *)
(***************************************************************************)
C6_CleanupRemovesExactlyTheExpired ==
    [][call'.op = "cleanup_expired_sessions"
       => LET passed == {x \in user_sessions : Instant(x.expires_at, tz) < now}
          IN  /\ user_sessions' = user_sessions \ passed
              /\ ret'.val = Cardinality(passed)]_vars

(***************************************************************************)
(* C7.  A cleanup_expired_sessions that directly follows another one, with *)
(* no other operation and no passage of time in between, returns 0 and     *)
(* leaves user_sessions as it was.                                         *)
(***************************************************************************)
C7_SecondCleanupRemovesNothing ==
    [][(/\ call.op = "cleanup_expired_sessions"
        /\ call'.op = "cleanup_expired_sessions"
        /\ now' = now)
       => /\ ret'.val = 0
          /\ user_sessions' = user_sessions]_vars

\* a second cleanup in a row, run on a store that holds a session
C7_Witness ==
    /\ call.op = "cleanup_expired_sessions"
    /\ cleanups_in_a_row = 2
    /\ ret.val = 0
    /\ \E r \in 1..Len(user_security_logs) :
          user_security_logs[r].event_type = "login"

(***************************************************************************)
(* C8.  assign_role_to_user with a role name that is not in the roles      *)
(* table returns false and leaves user_roles as it was, whatever the user  *)
(* id and the assigning user id.                                           *)
(***************************************************************************)
C8_UnknownRoleIsRefused ==
    [][(/\ call'.op = "assign_role_to_user"
        /\ \A r \in roles : r.name # call'.role_name)
       => /\ ret' = Returned(FALSE)
          /\ user_roles' = user_roles]_vars

\* an unknown role refused for a stored user, assigned by a stored user
C8_Witness ==
    /\ call.op = "assign_role_to_user"
    /\ \A r \in roles : r.name # call.role_name
    /\ ret = Returned(FALSE)
    /\ \E u \in users : u.id = call.user_id /\ u.id = call.assigned_by

(***************************************************************************)
(* C9.  Whenever create_user returns an id, the store holds a users row    *)
(* with that id, username and email, a user_roles row giving that user the *)
(* role "user" assigned by the user itself, and exactly one new            *)
(* user_created record of the security log for that user.                  *)
(***************************************************************************)
C9_CreatedUserIsStoredWithRoleAndLog ==
    [][(call'.op = "create_user" /\ ret'.val # None)
       => LET id == ret'.val[1]
          IN  /\ \E u \in users' :
                    /\ u.id = id
                    /\ u.username = call'.username
                    /\ u.email = call'.email
              /\ \E r \in roles' :
                    /\ r.name = "user"
                    /\ [user_id |-> id, role_id |-> r.id, assigned_by |-> id]
                          \in user_roles'
              /\ OneAppended(user_security_logs, user_security_logs')
              /\ Last(user_security_logs').event_type = "user_created"
              /\ Last(user_security_logs').user_id = Some(id)]_vars

\* a second user created next to a stored one
C9_Witness ==
    /\ call.op = "create_user"
    /\ ret.val # None
    /\ Cardinality(users) = 2

(***************************************************************************)
(* C10.  A create_session that returns, for a stored user, returns an id   *)
(* no stored session has, adds exactly one session row, owned by that      *)
(* user, leaves the stored sessions as they were, sets that user's         *)
(* last_login_at, and appends exactly one login record for that user.      *)
(***************************************************************************)
C10_CreateSessionAddsOneSession ==
    [][(call'.op = "create_session" /\ ~ret'.raised)
       => LET added == user_sessions' \ user_sessions
          IN  /\ \A x \in user_sessions : x.id # ret'.val
              /\ user_sessions \subseteq user_sessions'
              /\ Cardinality(user_sessions') = Cardinality(user_sessions) + 1
              /\ \A x \in added : x.id = ret'.val /\ x.user_id = call'.user_id
              /\ \E u \in users' :
                    /\ u.id = call'.user_id
                    /\ u.last_login_at = Some(CurrentTimestamp(now))
              /\ \A u \in users : u.id # call'.user_id => u \in users'
              /\ OneAppended(user_security_logs, user_security_logs')
              /\ Last(user_security_logs').event_type = "login"
              /\ Last(user_security_logs').user_id = Some(call'.user_id)]_vars

\* a second session of the same user
C10_Witness ==
    /\ call.op = "create_session"
    /\ ~ret.raised
    /\ \E x, y \in user_sessions :
          x.id # y.id /\ x.user_id = y.user_id /\ y.id = ret.val

(***************************************************************************)
(* C11.  The security log is append-only: every step of every operation    *)
(* leaves each stored record of user_security_logs in its place and        *)
(* unmodified, and can only add records after them.                        *)
(***************************************************************************)
C11_SecurityLogIsAppendOnly ==
    [][/\ Len(user_security_logs') >= Len(user_security_logs)
       /\ \A i \in 1..Len(user_security_logs) :
             user_security_logs'[i] = user_security_logs[i]]_vars

\* a log that three different operations have written to
C11_Witness ==
    /\ \E i, j, k \in 1..Len(user_security_logs) :
          /\ i < j
          /\ j < k
          /\ {user_security_logs[i].event_type, user_security_logs[j].event_type,
              user_security_logs[k].event_type} \subseteq
                 {"login", "login_failed", "logout"}
          /\ user_security_logs[i].event_type # user_security_logs[j].event_type
          /\ user_security_logs[j].event_type # user_security_logs[k].event_type
          /\ user_security_logs[i].event_type # user_security_logs[k].event_type

(***************************************************************************)
(* C12.  An error of the store raised by a statement of an operation,      *)
(* other than the uniqueness violation of create_user and the unknown role *)
(* of assign_role_to_user, reaches the caller as an exception, after a     *)
(* rollback that leaves the store as it was; it is never turned into a     *)
(* normal return value.  The errors that occur here are the foreign-key    *)
(* failures of the INSERTs into user_roles, user_sessions and              *)
(* user_security_logs.                                                     *)
(***************************************************************************)
C12_StoreErrorsReachTheCaller ==
    [][LET ids == {u.id : u \in users}
           role_insert_fails ==
               /\ call'.op = "assign_role_to_user"
               /\ \E r \in roles : r.name = call'.role_name
               /\ (call'.user_id \notin ids \/ call'.assigned_by \notin ids)
           session_insert_fails ==
               /\ call'.op = "create_session"
               /\ call'.user_id \notin ids
           log_insert_fails ==
               /\ call'.op = "log_security_event"
               /\ call'.user_id # None
               /\ call'.user_id[1] \notin ids
       IN  (role_insert_fails \/ session_insert_fails \/ log_insert_fails)
              => (ret'.raised /\ store' = store)]_vars

(***************************************************************************)
(* C13.  Every session row is created with an expiry strictly later than   *)
(* the store's current time at the moment of insertion (the row's          *)
(* created_at), whatever duration_hours the caller passed: no state holds  *)
(* a session that had already expired when it was inserted.                *)
(***************************************************************************)
C13_ExpiryIsInTheFutureAtCreation ==
    \A x \in user_sessions : x.expires_at > x.created_at

(***************************************************************************)
(* C14.  In every state, every record of the security log whose event type *)
(* is login_failed, and every record that carries a failure reason, has    *)
(* its success flag set to false.                                          *)
(***************************************************************************)
C14_FailuresAreLoggedAsFailures ==
    \A i \in 1..Len(user_security_logs) :
       (\/ user_security_logs[i].event_type = "login_failed"
        \/ user_security_logs[i].failure_reason # None)
          => ~user_security_logs[i].success

====
